---- MODULE Spec2Model ----
(***************************************************************************)
(* dumi core plugin (packages/preset-dumi/src/plugins/core.ts): the        *)
(* option merge, the two route hooks onPatchRoutesBefore / modifyRoutes,   *)
(* the metadata literal embedded into the root route's component, and the  *)
(* host's decoding of that literal when the layout mounts.                 *)
(*                                                                         *)
(* JavaScript values are tagged records: Undef (undefined), Str(s) with s  *)
(* a sequence of one-character strings, Arr(a), Obj(p) with p the sequence *)
(* of [k, v] properties in insertion order.  Texts (JSON, the embedded     *)
(* literal) are sequences of one-character strings.                        *)
(***************************************************************************)
EXTENDS Integers, Sequences, FiniteSets, TLC

(* ---------------------------- JS values -------------------------------- *)

Undef == [t |-> "u"]
Null == [t |-> "n"]
Str(s) == [t |-> "s", s |-> s]
Arr(a) == [t |-> "a", a |-> a]
Obj(p) == [t |-> "o", p |-> p]
Prop(k, v) == [k |-> k, v |-> v]

DQ == "\""
BS == "\\"
NL == "\n"
CARET == "^"

\* JS truthiness of the values the configuration carries: undefined, null
\* and the empty string are falsy; every array and object is truthy.
Truthy(v) == /\ v.t \notin {"u", "n"}
             /\ ~(v.t = "s" /\ v.s = <<>>)

\* left || right
OrElse(left, right) == IF Truthy(left) THEN left ELSE right

RECURSIVE Flatten(_)
Flatten(ss) == IF ss = <<>> THEN <<>> ELSE Head(ss) \o Flatten(Tail(ss))

RECURSIVE Join(_, _)
Join(ss, sep) ==
  IF ss = <<>> THEN <<>>
  ELSE IF Len(ss) = 1 THEN Head(ss)
  ELSE Head(ss) \o sep \o Join(Tail(ss), sep)

\* String.prototype.replace(/from/g, to) for a one-character pattern.
ReplaceAll(text, from, to) ==
  [i \in 1..Len(text) |-> IF text[i] = from THEN to ELSE text[i]]

(* --------------------------- JSON.stringify ---------------------------- *)

EscapeChar(c) ==
  IF c = DQ THEN <<BS, DQ>>
  ELSE IF c = BS THEN <<BS, BS>>
  ELSE IF c = NL THEN <<BS, "n">>
  ELSE <<c>>

Quote(s) == <<DQ>> \o Flatten([i \in 1..Len(s) |-> EscapeChar(s[i])]) \o <<DQ>>

RECURSIVE JSONStringify(_)
JSONStringify(v) ==
  IF v.t = "s" THEN Quote(v.s)
  ELSE IF v.t = "a" THEN
    <<"[">> \o Join([i \in 1..Len(v.a) |->
                       IF v.a[i].t = "u" THEN <<"n", "u", "l", "l">>
                       ELSE JSONStringify(v.a[i])], <<",">>) \o <<"]">>
  ELSE IF v.t = "o" THEN
    LET kept == SelectSeq(v.p, LAMBDA pr : pr.v.t # "u")
    IN <<"{">> \o Join([i \in 1..Len(kept) |->
                          Quote(kept[i].k) \o <<":">> \o JSONStringify(kept[i].v)],
                       <<",">>) \o <<"}">>
  ELSE <<"n", "u", "l", "l">>

(* ----------------------------- JSON.parse ------------------------------ *)

ParseFail == [ok |-> FALSE, val |-> Undef, pos |-> 0]
ParseOk(v, next) == [ok |-> TRUE, val |-> v, pos |-> next]

\* The characters of a string literal from position i (just after the
\* opening quote) up to its closing quote.
RECURSIVE ParseStringBody(_, _, _)
ParseStringBody(text, i, acc) ==
  IF i > Len(text) THEN ParseFail
  ELSE IF text[i] = DQ THEN ParseOk(acc, i + 1)
  ELSE IF text[i] = NL THEN ParseFail
  ELSE IF text[i] = BS THEN
    IF i + 1 > Len(text) THEN ParseFail
    ELSE IF text[i + 1] \in {DQ, BS, "/"}
      THEN ParseStringBody(text, i + 2, Append(acc, text[i + 1]))
    ELSE IF text[i + 1] = "n"
      THEN ParseStringBody(text, i + 2, Append(acc, NL))
    ELSE ParseFail
  ELSE ParseStringBody(text, i + 1, Append(acc, text[i]))

ParseString(text, i) ==
  IF i <= Len(text) /\ text[i] = DQ THEN ParseStringBody(text, i + 1, <<>>)
  ELSE ParseFail

RECURSIVE ParseValue(_, _)
RECURSIVE ParseElements(_, _, _)
RECURSIVE ParseMembers(_, _, _)

ParseValue(text, i) ==
  IF i > Len(text) THEN ParseFail
  ELSE IF text[i] = DQ THEN
    LET r == ParseString(text, i)
    IN IF r.ok THEN ParseOk(Str(r.val), r.pos) ELSE ParseFail
  ELSE IF text[i] = "[" THEN
    IF i + 1 <= Len(text) /\ text[i + 1] = "]" THEN ParseOk(Arr(<<>>), i + 2)
    ELSE ParseElements(text, i + 1, <<>>)
  ELSE IF text[i] = "{" THEN
    IF i + 1 <= Len(text) /\ text[i + 1] = "}" THEN ParseOk(Obj(<<>>), i + 2)
    ELSE ParseMembers(text, i + 1, <<>>)
  ELSE IF i + 3 <= Len(text) /\ SubSeq(text, i, i + 3) = <<"n", "u", "l", "l">>
    THEN ParseOk(Null, i + 4)
  ELSE ParseFail

ParseElements(text, i, acc) ==
  LET r == ParseValue(text, i)
  IN IF ~r.ok \/ r.pos > Len(text) THEN ParseFail
     ELSE IF text[r.pos] = "," THEN ParseElements(text, r.pos + 1, Append(acc, r.val))
     ELSE IF text[r.pos] = "]" THEN ParseOk(Arr(Append(acc, r.val)), r.pos + 1)
     ELSE ParseFail

ParseMembers(text, i, acc) ==
  LET k == ParseString(text, i)
  IN IF ~k.ok \/ k.pos > Len(text) \/ text[k.pos] # ":" THEN ParseFail
     ELSE LET r == ParseValue(text, k.pos + 1)
          IN IF ~r.ok \/ r.pos > Len(text) THEN ParseFail
             ELSE IF text[r.pos] = ","
               THEN ParseMembers(text, r.pos + 1, Append(acc, Prop(k.val, r.val)))
             ELSE IF text[r.pos] = "}"
               THEN ParseOk(Obj(Append(acc, Prop(k.val, r.val))), r.pos + 1)
             ELSE ParseFail

\* The whole text must be one value.
JSONParse(text) ==
  LET r == ParseValue(text, 1)
  IN IF r.ok /\ r.pos = Len(text) + 1 THEN r ELSE ParseFail

(* ------------------------- objects and spread -------------------------- *)

Keys(o) == {o.p[i].k : i \in DOMAIN o.p}

\* o[k]: undefined when the object has no such property.
Get(o, k) ==
  IF k \in Keys(o) THEN (CHOOSE pr \in {o.p[i] : i \in DOMAIN o.p} : pr.k = k).v
  ELSE Undef

\* What a consumer can tell apart: the properties whose value is defined.
Defined(o) == Obj(SelectSeq(o.p, LAMBDA pr : pr.v.t # "u"))

\* The spreads in the opposite order: { ...second, ...first }.
SpreadMergeMetaLast(first, second) ==
  Obj([i \in 1..Len(second.p) |->
         IF second.p[i].k \in Keys(first)
           THEN Prop(second.p[i].k, Get(first, second.p[i].k)) ELSE second.p[i]]
      \o SelectSeq(first.p, LAMBDA pr : pr.k \notin Keys(second)))

\* { ...first, ...second }: the later spread wins on a key both carry.
SpreadMerge(first, second) ==
  Obj([i \in 1..Len(first.p) |->
         IF first.p[i].k \in Keys(second)
           THEN Prop(first.p[i].k, Get(second, first.p[i].k)) ELSE first.p[i]]
      \o SelectSeq(second.p, LAMBDA pr : pr.k \notin Keys(first)))

(* ------------------------------ constants ------------------------------ *)

\* Property names of the metadata object, in the order of the literal.
K_menus == <<"m", "e", "n", "u", "s">>
K_locales == <<"l", "o", "c", "a", "l", "e", "s">>
K_navs == <<"n", "a", "v", "s">>
K_title == <<"t", "i", "t", "l", "e">>
K_logo == <<"l", "o", "g", "o">>
K_desc == <<"d", "e", "s", "c">>
K_mode == <<"m", "o", "d", "e">>
K_repoUrl == <<"r", "e", "p", "o", "U", "r", "l">>
MetaKeys == {K_menus, K_locales, K_navs, K_title, K_logo, K_desc, K_mode, K_repoUrl}

ROOT == <<"/">>
T_enUS == <<"e", "n", "-", "U", "S">>
T_zhCN == <<"z", "h", "-", "C", "N">>

\* const defaultTitle = pkg.name || 'dumi'
defaultTitle(pkg) == OrElse(pkg.name, Str(<<"d", "u", "m", "i">>))

\* The closure's defaultOpts as constructed.  hostPkgAlias of a single
\* package contributes its src folder; the second label stands for the
\* two-character Chinese label of the source.
DefaultOpts(pkg) ==
  [title |-> defaultTitle(pkg),
   resolve |-> [includes |-> Arr(<<"src", "docs">>),
                previewLangs |-> Arr(<<"jsx", "tsx">>)],
   locales |-> Arr(<<Arr(<<Str(T_enUS), Str(<<"E", "n", "g", "l", "i", "s", "h">>)>>),
                     Arr(<<Str(T_zhCN), Str(<<"Z", "W">>)>>)>>),
   mode |-> Str(<<"d", "o", "c">>)]

(* --------------------------- mergeUserConfig --------------------------- *)

\* result.resolve is the very object defaultOpts.resolve (Object.assign
\* copies the reference): the result holds this reference, read through
\* ResolveOf against the current defaultOpts.
ResolveRef == [t |-> "ref"]

\* api.config.resolve?.[key]
OptChain(obj, key) == IF obj.t \in {"u", "n"} THEN Undef ELSE obj[key]

\* left ?? right
OrElseNullish(left, right) == IF left.t \notin {"u", "n"} THEN left ELSE right

\* api.config[key] || result[key]
ConfigOrDefault(left, right) == OrElse(left, right)

\* Returns the merged options and the closure's defaultOpts as the call
\* leaves it.
mergeUserConfig(defaults, api) ==
  LET copy == [k \in {"title", "resolve", "locales", "mode"} |->
                 IF k = "resolve" THEN ResolveRef ELSE defaults[k]]
      withDefault == [k \in DOMAIN copy |->
                        IF k \in {"mode", "title", "locales"}
                          THEN ConfigOrDefault(api.config[k], copy[k]) ELSE copy[k]]
      supplied == {k \in {"description", "logo", "menus", "navs"} : Truthy(api.config[k])}
      nonDefault == [k \in supplied |-> api.config[k]] @@ withDefault
      resolve == [k \in {"includes", "previewLangs"} |->
                    IF Truthy(OptChain(api.config.resolve, k))
                      THEN api.config.resolve[k] ELSE defaults.resolve[k]]
      result == IF Truthy(api.userConfig.routes)
                  THEN ("routes" :> api.userConfig.routes) @@ nonDefault
                  ELSE nonDefault
  IN [result |-> result, defaults |-> [defaults EXCEPT !.resolve = resolve]]

\* opts.x: undefined when the options carry no such key.
Opt(opts, k) == IF k \in DOMAIN opts THEN opts[k] ELSE Undef

(* ------------------------------- routes -------------------------------- *)

\* A route: path, component, child routes, locale (<<>> when the page has
\* none).  A component is a module path, [module |-> m], or the text that
\* modifyRoutes generates around the previous component, [require, literal].
Module(m) == [module |-> m]
Route(path, component, children, locale) ==
  [path |-> path, component |-> component, routes |-> children, locale |-> locale]
Page(path, locale) == Route(path, Module("page"), <<>>, locale)

IsWrapper(component) == "literal" \in DOMAIN component

Elems(seq) == {seq[i] : i \in DOMAIN seq}

\* getRouteConfig(api, opts): the layout route '/' whose children are the
\* pages found under each included directory, directories in the order of
\* opts.resolve.includes, pages in their sorted enumeration order.
getRouteConfig(files, includes) ==
  <<Route(ROOT, Module("layout"),
          Flatten([i \in 1..Len(includes.a) |-> files[includes.a[i]]]), <<>>)>>

\* getRepoUrl(pkg.repository?.url || pkg.repository)
getRepoUrl(repository) == repository

\* getMenuFromRoutes: one leaf per page of its input.
getMenuFromRoutes(childRoutes, opts) ==
  Arr([i \in 1..Len(childRoutes) |-> Str(childRoutes[i].path)])

\* getLocaleFromRoutes: the configured locales that occur on some route, in
\* configuration order.
getLocaleFromRoutes(childRoutes, opts) ==
  Arr(SelectSeq(opts["locales"].a,
                LAMBDA l : \E r \in Elems(childRoutes) : r.locale = l.a[1].s))

\* getNavFromRoutes: opts.navs verbatim when configured, else one entry per
\* page without a locale.
getNavFromRoutes(childRoutes, opts, navs) ==
  IF Truthy(navs) THEN navs
  ELSE Arr([i \in 1..Len(SelectSeq(childRoutes, LAMBDA r : r.locale = <<>>)) |->
              Str(SelectSeq(childRoutes, LAMBDA r : r.locale = <<>>)[i].path)])

(* ----------------------------- input sets ------------------------------ *)

\* api.config with no key set.
EmptyConfig ==
  [mode |-> Undef, title |-> Undef, locales |-> Undef, description |-> Undef,
   logo |-> Undef, menus |-> Undef, navs |-> Undef, resolve |-> Undef]

Api(config, userRoutes) == [config |-> config, userConfig |-> [routes |-> userRoutes]]

\* A title with a double quote, a backslash and a control character.
T_quoted == Str(<<"a", DQ, BS, NL>>)

\* The user configurations: nothing configured; empty (falsy) strings;
\* a title holding a caret; every key configured; one key of resolve each.
Apis ==
  {Api(EmptyConfig, Undef),
   Api([EmptyConfig EXCEPT !.title = Str(<<>>), !.description = Str(<<>>)], Undef),
   Api([EmptyConfig EXCEPT !.title = Str(<<CARET>>), !.logo = Str(<<"l">>)], Undef),
   Api([EmptyConfig EXCEPT !.title = T_quoted, !.navs = Arr(<<Str(<<"n">>)>>)], Undef),
   Api([mode |-> Str(<<"s", "i", "t", "e">>), title |-> T_quoted,
        locales |-> Arr(<<Arr(<<Str(T_zhCN), Str(<<"Z", "W">>)>>)>>),
        description |-> Str(<<"d", DQ>>), logo |-> Str(<<"l">>),
        menus |-> Obj(<<>>), navs |-> Arr(<<Str(<<"n">>)>>),
        resolve |-> [t |-> "o", includes |-> Undef, previewLangs |-> Undef]],
       Arr(<<>>)),
   Api([EmptyConfig EXCEPT
          !.resolve = [t |-> "o", includes |-> Arr(<<"lib">>), previewLangs |-> Undef]],
       Undef),
   Api([EmptyConfig EXCEPT
          !.locales = Arr(<<>>),
          !.resolve = [t |-> "o", includes |-> Undef, previewLangs |-> Arr(<<"vue">>)]],
       Undef)}

Pkgs == {[name |-> Undef, repository |-> Str(<<"r">>)],
         [name |-> Str(<<"p">>), repository |-> Str(<<"r">>)]}

\* Pages per directory, each list in sorted enumeration order.
FileSets ==
  {[src |-> <<>>,
    docs |-> <<Page(ROOT, <<>>), Page(<<"/", "g">>, <<>>)>>,
    lib |-> <<Page(<<"/", "l">>, <<>>)>>],
   [src |-> <<Page(<<"/", "s">>, <<>>)>>,
    docs |-> <<Page(ROOT, <<>>), Page(<<"/", "z">>, T_zhCN)>>,
    lib |-> <<>>]}

\* getDemoRoutes(api.paths): what the demo collaborator supplies.
DemoRouteSets ==
  {<<>>,
   <<Route(<<"/", "~", "1">>, Module("demo"), <<>>, <<>>),
     Route(<<"/", "~", "2">>, Module("demo"), <<>>, <<>>)>>}

\* What another plugin adds between the two hooks: routes pushed to the top
\* level and routes pushed under the first '/' route.
HostPlugins ==
  {[top |-> <<>>, child |-> <<>>],
   [top |-> <<Route(<<"/", "h">>, Module("host"), <<>>, <<>>)>>,
    child |-> <<Route(<<"/", "c">>, Module("host"), <<>>, <<>>)>>],
   [top |-> <<Route(ROOT, Module("host"), <<>>, <<>>)>>, child |-> <<>>]}

\* The host's conventional routes before the first patch.
ConventionalRoutes ==
  {<<>>, <<Route(<<"/", "o">>, Module("old"), <<Page(<<"/", "o", "c">>, <<>>)>>, <<>>)>>}

\* Runtime props the host mounts the layout with.
RuntimeProps ==
  {Obj(<<Prop(<<"c">>, Str(<<"x">>))>>),
   Obj(<<Prop(K_title, Str(<<"r", "t">>)), Prop(K_logo, Str(<<"r", "l">>))>>)}

(* -------------------------------- state -------------------------------- *)

MaxPass == 2

VARIABLES
  api,          \* api.config and api.userConfig
  env,          \* package.json, the files, the collaborators (fixed)
  defaultOpts,  \* the closure's defaultOpts object
  routes,       \* the host's top-level route list
  context,      \* what setContext saved
  pc,           \* where the host is in a pass: idle, patched, injected, modified
  pass,         \* passes completed since the configuration last changed
  last,         \* the last hook of the plugin the host called
  meta,         \* the object modifyRoutes serialized last
  derivedFrom,  \* the routes modifyRoutes handed to the menu/locale/nav derivation
  render,       \* the last mount of the root component
  first,        \* the routes as the first pass under this configuration left them
  watched       \* the last result of addTmpGenerateWatcherPaths

vars == <<api, env, defaultOpts, routes, context, pc, pass, last, meta,
          derivedFrom, render, first, watched>>

None == [t |-> "none"]
NotRendered == [state |-> "none", props |-> Undef, meta |-> Undef, received |-> Undef]

Init ==
  /\ api \in Apis
  /\ env \in [pkg : Pkgs, files : FileSets, demoRoutes : DemoRouteSets,
              host : HostPlugins]
  /\ defaultOpts = DefaultOpts(env.pkg)
  /\ routes \in ConventionalRoutes
  /\ context = None
  /\ pc = "idle"
  /\ pass = 0
  /\ last = [hook |-> "none", parent |-> 0]
  /\ meta = Undef
  /\ derivedFrom = <<>>
  /\ render = NotRendered
  /\ first = None
  /\ watched = None

(* ------------------------- onPatchRoutesBefore ------------------------- *)

\* The hook without its parentRoute test.
IsTopLevelAlways(parentRoute) == TRUE

\* if (!parentRoute)
IsTopLevel(parentRoute) == parentRoute = None

\* push instead of unshift: the demo routes after the generated ones.
ReplaceRoutesDemoLast(list, demoRoutes, result) == result \o demoRoutes

\* Without the splice that clears the list.
ReplaceRoutesNoClear(list, demoRoutes, result) == list \o demoRoutes \o result

\* routes.splice(0, routes.length); result.unshift(...demoRoutes);
\* routes.push(...result)
ReplaceRoutes(list, demoRoutes, result) ==
  LET cleared == SubSeq(list, 1, 0)
      unshifted == demoRoutes \o result
  IN cleared \o unshifted

\* The host calls the hook for the top level (parent = 0) at the start of a
\* pass and then for the child list of every route that has one.
onPatchRoutesBefore(parent) ==
  /\ IF parent = 0
       THEN pc \in {"idle", "modified"} /\ pass < MaxPass
       ELSE pc = "patched" /\ parent \in DOMAIN routes /\ routes[parent].routes # <<>>
  /\ LET list == IF parent = 0 THEN routes ELSE routes[parent].routes
         parentRoute == IF parent = 0 THEN None ELSE routes[parent]
         merged == mergeUserConfig(defaultOpts, api)
         result == getRouteConfig(env.files, merged.defaults.resolve.includes)
         patched == ReplaceRoutes(list, env.demoRoutes, result)
     IN IF IsTopLevel(parentRoute)
          THEN /\ defaultOpts' = merged.defaults
               /\ context' = [opts |-> merged.result]
               /\ routes' = IF parent = 0 THEN patched
                            ELSE [routes EXCEPT ![parent].routes = patched]
          ELSE UNCHANGED <<defaultOpts, context, routes>>
  /\ pc' = IF parent = 0 THEN "patched" ELSE pc
  /\ render' = IF parent = 0 THEN NotRendered ELSE render
  /\ last' = [hook |-> "onPatchRoutesBefore", parent |-> parent]
  /\ UNCHANGED <<api, env, pass, meta, derivedFrom, first, watched>>

\* Another plugin adds its routes to the patched list.
HostInject ==
  /\ pc = "patched"
  /\ routes' = [i \in 1..Len(routes) |->
                  IF i = (CHOOSE j \in DOMAIN routes : routes[j].path = ROOT
                            /\ \A h \in 1..(j - 1) : routes[h].path # ROOT)
                    THEN [routes[i] EXCEPT !.routes = @ \o env.host.child]
                    ELSE routes[i]] \o env.host.top
  /\ pc' = "injected"
  /\ UNCHANGED <<api, env, defaultOpts, context, pass, last, meta, derivedFrom,
                 render, first, watched>>

(* ----------------------------- modifyRoutes ---------------------------- *)

\* The last route whose path is '/' instead of the first.
FindRootLast(list) ==
  CHOOSE i \in DOMAIN list :
    list[i].path = ROOT /\ \A j \in (i + 1)..Len(list) : list[j].path # ROOT

\* routes.find(route => route.path === '/'), as an index
FindRoot(list) ==
  CHOOSE i \in DOMAIN list :
    list[i].path = ROOT /\ \A j \in 1..(i - 1) : list[j].path # ROOT

\* Only the generated children, without what other plugins added.
ChildRoutesOwn(root) == SelectSeq(root.routes, LAMBDA r : r.component # Module("host"))

\* const childRoutes = root.routes
ChildRoutes(root) == root.routes

\* const meta = { menus, locales, navs, title, logo, desc, mode, repoUrl }
BuildMeta(childRoutes, opts, pkg) ==
  Obj(<<Prop(K_menus, getMenuFromRoutes(childRoutes, opts)),
        Prop(K_locales, getLocaleFromRoutes(childRoutes, opts)),
        Prop(K_navs, getNavFromRoutes(childRoutes, opts, Opt(opts, "navs"))),
        Prop(K_title, Opt(opts, "title")),
        Prop(K_logo, Opt(opts, "logo")),
        Prop(K_desc, Opt(opts, "description")),
        Prop(K_mode, Opt(opts, "mode")),
        Prop(K_repoUrl, getRepoUrl(pkg.repository))>>)

\* JSON.stringify(meta).replace(/"/g, '^')
EncodeMeta(object) == ReplaceAll(JSONStringify(object), DQ, CARET)

\* (props) => createElement(require('<component>').default,
\*                          { ...<literal>, ...props })
Template(component, literal) == [require |-> component, literal |-> literal]

\* Without a '/' route root is undefined and the hook throws before it
\* changes anything; getRouteConfig always supplies one.
modifyRoutes ==
  /\ pc = "injected"
  /\ \E i \in DOMAIN routes : routes[i].path = ROOT
  /\ LET merged == mergeUserConfig(defaultOpts, api)
         root == FindRoot(routes)
         childRoutes == ChildRoutes(routes[root])
         object == BuildMeta(childRoutes, merged.result, env.pkg)
         after == [routes EXCEPT
                     ![root].component = Template(@, EncodeMeta(object))]
     IN /\ defaultOpts' = merged.defaults
        /\ routes' = after
        /\ meta' = object
        /\ derivedFrom' = childRoutes
        /\ first' = IF first = None THEN [routes |-> after] ELSE first
  /\ pc' = "modified"
  /\ pass' = pass + 1
  /\ last' = [hook |-> "modifyRoutes", parent |-> 0]
  /\ UNCHANGED <<api, env, context, render, watched>>

(* ------------------------------ the host ------------------------------- *)

\* The host turns every ^ of the component text back into a double quote
\* before the text is evaluated.
HostDecode(literal) == JSONParse(ReplaceAll(literal, CARET, DQ))

\* The host mounts the root component with its runtime props.
Mount(props) ==
  /\ pc = "modified"
  /\ LET component == routes[FindRoot(routes)].component
         decoded == HostDecode(component.literal)
     IN /\ IsWrapper(component)
        /\ render' = IF decoded.ok
                       THEN [state |-> "mounted", props |-> props,
                             meta |-> decoded.val,
                             received |-> SpreadMerge(decoded.val, props)]
                       ELSE [state |-> "failed", props |-> props,
                             meta |-> Undef, received |-> Undef]
  /\ UNCHANGED <<api, env, defaultOpts, routes, context, pc, pass, last, meta,
                 derivedFrom, first, watched>>

\* The user edits the configuration; the host reloads it.
ChangeConfig(next) ==
  /\ pc \in {"idle", "modified"}
  /\ next # api
  /\ api' = next
  /\ pass' = 0
  /\ first' = None
  /\ UNCHANGED <<env, defaultOpts, routes, context, pc, last, meta, derivedFrom,
                 render, watched>>

(* -------------------- addTmpGenerateWatcherPaths ----------------------- *)

\* opts.resolve.includes.map(key => path.join(cwd, key, '**/*.md'))
addTmpGenerateWatcherPaths ==
  /\ pc \in {"idle", "modified"}
  /\ LET merged == mergeUserConfig(defaultOpts, api)
         includes == merged.defaults.resolve.includes
     IN /\ defaultOpts' = merged.defaults
        /\ watched' = [i \in 1..Len(includes.a) |-> <<"cwd", includes.a[i], "**/*.md">>]
  /\ UNCHANGED <<api, env, routes, context, pc, pass, last, meta, derivedFrom,
                 render, first>>

Next ==
  \/ \E parent \in 0..Len(routes) : onPatchRoutesBefore(parent)
  \/ HostInject
  \/ modifyRoutes
  \/ \E props \in RuntimeProps : Mount(props)
  \/ \E next \in Apis : ChangeConfig(next)
  \/ addTmpGenerateWatcherPaths

Spec == Init /\ [][Next]_vars

(* ------------------------------- claims -------------------------------- *)

\* The position of the first route whose path is '/'.
FirstRoot(list) ==
  CHOOSE i \in DOMAIN list : list[i].path = ROOT /\ \A j \in DOMAIN list :
                                                      list[j].path = ROOT => i <= j

\* C1: whenever the layout mounts, what it receives is the metadata the
\* component text carries (the literal as the host decodes it) merged with
\* the runtime props: the keys are those of either, a key both carry has the
\* runtime value, and the metadata supplies the value of every other key of
\* its own.
C1_RuntimePropsWin ==
  render.state = "mounted" =>
    /\ Keys(render.received) = Keys(render.meta) \cup Keys(render.props)
    /\ \A k \in Keys(render.props) : Get(render.received, k) = Get(render.props, k)
    /\ \A k \in Keys(render.meta) \ Keys(render.props) :
         Get(render.received, k) = Get(render.meta, k)

C1_Witness ==
  /\ render.state = "mounted"
  /\ render.meta = Defined(meta)
  /\ K_title \in Keys(render.props) \cap Keys(render.meta)
  /\ Get(render.meta, K_title) = T_quoted
  /\ Get(render.received, K_title) = Str(<<"r", "t">>)
  /\ Get(render.received, K_mode) = Get(meta, K_mode)

\* C2: whatever the metadata object's strings hold, the host decodes the
\* embedded literal back into the object that was serialized (its defined
\* properties, in order).
C2_RoundTrip ==
  render.state # "none" =>
    /\ render.state = "mounted"
    /\ render.meta = Defined(meta)

\* C3: after the top-level onPatchRoutesBefore the route list is exactly the
\* demo routes followed by the generated routes; nothing of the list it was
\* given (conventional routes, another plugin's routes, a rewritten root)
\* is left.
C3_DemoThenGenerated ==
  pc = "patched" =>
    /\ routes = env.demoRoutes \o getRouteConfig(env.files, defaultOpts.resolve.includes)
    /\ \A i \in DOMAIN routes :
         /\ ~IsWrapper(routes[i].component)
         /\ routes[i].component \notin {Module("host"), Module("old")}

C3_Witness ==
  /\ pc = "patched"
  /\ pass >= 1
  /\ env.demoRoutes # <<>>
  /\ env.host.top # <<>>
  /\ Len(routes) = Len(env.demoRoutes) + 1
  /\ routes[1] = env.demoRoutes[1]

\* C4 as stated: every route another plugin injected between the hooks and
\* every demo route is part of the input of the menu/locale/nav derivation.
C4_EveryRouteIsInput ==
  pc = "modified" =>
    \A r \in Elems(env.host.top) \cup Elems(env.host.child) \cup Elems(env.demoRoutes) :
      r \in Elems(derivedFrom)

\* C4 amended: the input of the derivation is the child list of the first
\* '/' route as it stands when modifyRoutes runs, so every route another
\* plugin injected under the root between the hooks is part of it.
C4_RootChildrenAreInput ==
  pc = "modified" =>
    /\ derivedFrom = routes[FirstRoot(routes)].routes
    /\ \A r \in Elems(env.host.child) : r \in Elems(derivedFrom)

C4_Witness ==
  /\ pc = "modified"
  /\ env.host.child # <<>>
  /\ env.demoRoutes # <<>>
  /\ env.host.child[1] \in Elems(derivedFrom)
  /\ env.demoRoutes[1] \notin Elems(derivedFrom)

\* C5: for every configuration the metadata reaches the renderer, carries
\* no key but the eight of the literal, and its title, logo, desc and mode
\* read as those of the options resolved for the pass (an unconfigured logo
\* or description reading as undefined).
C5_MetadataReachesRenderer ==
  render.state # "none" =>
    /\ render.state = "mounted"
    /\ Keys(render.meta) \subseteq MetaKeys
    /\ Get(render.meta, K_title) = Opt(context.opts, "title")
    /\ Get(render.meta, K_logo) = Opt(context.opts, "logo")
    /\ Get(render.meta, K_desc) = Opt(context.opts, "description")
    /\ Get(render.meta, K_mode) = Opt(context.opts, "mode")

\* C6: under an unchanged configuration and file set, every later pass
\* leaves the route list, the root's generated component included, as the
\* first pass left it.
C6_Idempotent ==
  (pc = "modified" /\ first # None) => routes = first.routes

C6_Witness ==
  /\ pc = "modified"
  /\ pass >= 2
  /\ env.demoRoutes # <<>>
  /\ env.host.top # <<>>
  /\ IsWrapper(routes[FirstRoot(routes)].component)
  /\ routes = first.routes

\* C7: no merge changes defaultOpts: it keeps the value it was constructed
\* with, resolve.includes and resolve.previewLangs included.
C7_DefaultOptsUnchanged ==
  defaultOpts = DefaultOpts(env.pkg)

DefaultTitleOf(pkg) ==
  IF pkg.name.t = "s" /\ pkg.name.s # <<>> THEN pkg.name ELSE Str(<<"d", "u", "m", "i">>)

DefaultOf(k) ==
  IF k = "mode" THEN Str(<<"d", "o", "c">>)
  ELSE IF k = "title" THEN DefaultTitleOf(env.pkg)
  ELSE Arr(<<Arr(<<Str(T_enUS), Str(<<"E", "n", "g", "l", "i", "s", "h">>)>>),
             Arr(<<Str(T_zhCN), Str(<<"Z", "W">>)>>)>>)

\* C8 as stated: for mode, title and locales the merged value is the
\* configured one whenever the configuration supplies one, the default
\* otherwise; description, logo, menus and navs appear only when supplied.
C8_SuppliedValueWins ==
  pc = "patched" =>
    /\ \A k \in {"mode", "title", "locales"} :
         context.opts[k] = IF api.config[k] # Undef THEN api.config[k] ELSE DefaultOf(k)
    /\ \A k \in {"description", "logo", "menus", "navs"} :
         k \in DOMAIN context.opts => api.config[k] # Undef

\* C8 amended: the configured value wins whenever it is truthy; a missing or
\* falsy one (the empty string) gives the default; the keys without default
\* appear only when supplied, and then with the configured value.
C8_TruthyValueWins ==
  pc = "patched" =>
    /\ \A k \in {"mode", "title", "locales"} :
         context.opts[k] = IF Truthy(api.config[k]) THEN api.config[k] ELSE DefaultOf(k)
    /\ \A k \in {"description", "logo", "menus", "navs"} :
         k \in DOMAIN context.opts =>
           api.config[k] # Undef /\ context.opts[k] = api.config[k]

C8_Witness ==
  /\ pc = "patched"
  /\ api.config.title = Str(<<>>)
  /\ context.opts["title"] = DefaultTitleOf(env.pkg)
  /\ "description" \notin DOMAIN context.opts

\* C9: a call of onPatchRoutesBefore with a parentRoute (the only step that
\* keeps the host in the patched position) leaves the route lists, the
\* saved context and the default options as they were.
C9_NestedCallChangesNothing ==
  [][(pc = "patched" /\ pc' = "patched") =>
       (routes' = routes /\ context' = context /\ defaultOpts' = defaultOpts)]_vars

C9_Witness ==
  /\ pc = "patched"
  /\ last.hook = "onPatchRoutesBefore"
  /\ last.parent > 0
  /\ routes[last.parent].routes # <<>>
  /\ routes = env.demoRoutes \o getRouteConfig(env.files, defaultOpts.resolve.includes)

\* C10: modifyRoutes keeps the list's length and order and changes nothing
\* but the component of the first route whose path is '/'.
C10_OnlyRootComponentChanges ==
  [][(pc = "injected" /\ pc' = "modified") =>
       /\ Len(routes') = Len(routes)
       /\ \A i \in DOMAIN routes :
            IF i = FirstRoot(routes)
              THEN /\ routes'[i].path = routes[i].path
                   /\ routes'[i].routes = routes[i].routes
                   /\ routes'[i].locale = routes[i].locale
                   /\ routes'[i].component # routes[i].component
              ELSE routes'[i] = routes[i]]_vars

C10_Witness ==
  /\ pc = "modified"
  /\ Cardinality({i \in DOMAIN routes : routes[i].path = ROOT}) = 2
  /\ Len(routes) = 4
  /\ IsWrapper(routes[FirstRoot(routes)].component)
  /\ routes[Len(routes)] = Route(ROOT, Module("host"), <<>>, <<>>)

====
